---- MODULE Spec2Model ----
(***************************************************************************)
(* Model of the department tag bot (src/main.py): the two Postgres tables  *)
(* reparti and membri, the four command handlers, the tag scanner          *)
(* gestore_messaggi, the is_admin helper and setup_database.               *)
(*                                                                         *)
(* A handler is a coroutine.  Its position (pc) advances between the       *)
(* places where it can be suspended: the administrator query of is_admin   *)
(* and the reply sent at the end of its try block.  psycopg2 calls are     *)
(* synchronous, so connect .. commit of one handler runs in one step.      *)
(* Strings are sequences of one-character strings, so that str.lower(),    *)
(* str.startswith() and the substring test `in` are computed.              *)
(***************************************************************************)
EXTENDS Integers, Sequences, FiniteSets, TLC

\* ---------------------------------------------------------------- bounds
\* MaxUpdates: how many updates the dispatcher hands out in one run.
MaxUpdates == 4
NumUsers == 2

Users == 1..NumUsers
Chats == {1, 2}
Procs == {1, 2}

\* ------------------------------------------------------- the environment
\* Chat 1 is the one-to-one chat with user 1, every other chat is a group
\* in which every user can write and user 1 is the only administrator.
ChatType(c) == IF c = 1 THEN "private" ELSE "group"

Senders(c) == IF ChatType(c) = "private" THEN {c} ELSE Users

ChatAdmins(c) == {1}

NoUser == 0
NoName == <<>>
NoText == <<>>

FullName(u) == <<"U", u>>

\* context.args of a command: no argument, or one argument.
ArgLists ==
  { <<>>,
    << <<"a">> >>,
    << <<"@", "a">> >>,
    << <<"@", "A">> >>,
    << <<"@", "B">> >> }

\* update.message.text of a non-command message.
Texts ==
  { NoText,
    <<"x">>,
    <<"x", "@", "A">>,
    <<"@", "b", "x">>,
    <<"@", "a", "@", "B">> }

\* The updates of the concurrent specification: racing commands and tag
\* messages about two departments of the group chat.
RaceChats == {2}
RaceArgLists == { << <<"@", "A">> >>, << <<"@", "b">> >> }
RaceTexts == { <<"x", "@", "A">> }
RaceReplyTo == {2}

\* What the database does when a handler uses it: the connection cannot be
\* made, a statement raises, or everything works.
DbOutcomes == {"down", "fail", "ok"}

Commands == {"crea_reparto", "aggiungi_membro", "rimuovi_membro", "lista_reparto"}
AdminCommands == {"crea_reparto", "aggiungi_membro", "rimuovi_membro"}

\* ------------------------------------------------------- pure functions
LowerChar(c) ==
  CASE c = "A" -> "a"
    [] c = "B" -> "b"
    [] OTHER -> c

\* Mutant of Lower: the name is used as typed.
LowerAsTyped(s) == s

Lower(s) == [i \in 1..Len(s) |-> LowerChar(s[i])]

StartsWith(s, c) == Len(s) >= 1 /\ s[1] = c

\* Python's `n in t` on strings.
IsSubstring(n, t) ==
  \E i \in 0..(Len(t) - Len(n)) : SubSeq(t, i + 1, i + Len(n)) = n

\* The sequences that list every element of S exactly once: the orders in
\* which a SELECT without ORDER BY may return the rows.
Orderings(S) ==
  { f \in [1..Cardinality(S) -> S] : \A i, j \in 1..Cardinality(S) : f[i] = f[j] => i = j }

VARIABLES main_pc, schema, setup_conn, reparti, membri, proc, updates

vars == <<main_pc, schema, setup_conn, reparti, membri, proc, updates>>

\* ------------------------------------------------------------ the store
\* Rows of reparti are <<chat_id, reparto_nome>>; rows of membri are records
\* with the four columns of the table.

\* Mutant of InsertReparto: a plain INSERT, which raises on a duplicate key.
InsertRepartoPlain(tbl, c, n) ==
  IF \E r \in tbl : r[1] = c /\ r[2] = n
    THEN [rows |-> tbl, error |-> TRUE]
    ELSE [rows |-> tbl \cup {<<c, n>>}, error |-> FALSE]

\* Mutant of InsertReparto: the key is chat_id alone and a conflict updates
\* the row, so a chat keeps only its newest department.
InsertRepartoOnePerChat(tbl, c, n) ==
  [rows |-> {r \in tbl : r[1] # c} \cup {<<c, n>>}, error |-> FALSE]

\* INSERT INTO reparti ... ON CONFLICT DO NOTHING: a row with the same
\* primary key (chat_id, reparto_nome) is left alone and nothing is raised.
InsertReparto(tbl, c, n) ==
  IF \E r \in tbl : r[1] = c /\ r[2] = n
    THEN [rows |-> tbl, error |-> FALSE]
    ELSE [rows |-> tbl \cup {<<c, n>>}, error |-> FALSE]

\* Mutant of RepartoEsiste: the WHERE clause forgets chat_id.
RepartoEsisteAnyChat(tbl, c, n) == \E r \in tbl : r[2] = n

\* SELECT * FROM reparti WHERE chat_id = c AND reparto_nome = n; fetchone().
RepartoEsiste(tbl, c, n) == \E r \in tbl : r[1] = c /\ r[2] = n

\* INSERT INTO membri ... ON CONFLICT DO NOTHING, under the foreign key of
\* the table: the key is (chat_id, reparto_nome, user_id).
InsertMembro(rep, tbl, c, n, u, name) ==
  IF ~(\E r \in rep : r[1] = c /\ r[2] = n)
    THEN [rows |-> tbl, error |-> TRUE]
    ELSE IF \E m \in tbl : m.chat_id = c /\ m.reparto_nome = n /\ m.user_id = u
      THEN [rows |-> tbl, error |-> FALSE]
      ELSE [rows |-> tbl \cup {[chat_id |-> c, reparto_nome |-> n,
                                user_id |-> u, user_name |-> name]},
            error |-> FALSE]

\* DELETE FROM membri WHERE chat_id = c AND reparto_nome = n AND user_id = u;
\* rowcount is the rowcount of the cursor that executed the statement.
DeleteMembro(tbl, c, n, u) ==
  LET hit == {m \in tbl : m.chat_id = c /\ m.reparto_nome = n /\ m.user_id = u}
  IN [rows |-> tbl \ hit, rowcount |-> Cardinality(hit)]

\* conn.cursor().rowcount: the rowcount of a cursor that has executed
\* nothing, which psycopg2 reports as -1.
FreshCursorRowcount == -1

\* Mutant of MembriDi: the WHERE clause forgets chat_id.
MembriDiAnyChat(tbl, c, n) == {m \in tbl : m.reparto_nome = n}

\* SELECT ... FROM membri WHERE chat_id = c AND reparto_nome = n.
MembriDi(tbl, c, n) == {m \in tbl : m.chat_id = c /\ m.reparto_nome = n}

\* SELECT reparto_nome FROM reparti WHERE chat_id = c.
RepartiDi(tbl, c) == {r[2] : r \in {x \in tbl : x[1] = c}}

\* ------------------------------------------------------------- replies
Reply(k, n, us) == [kind |-> k, reparto |-> n, users |-> us]

Mention(u) == <<"tg://user?id=", u>>

\* Mutant of FirstMatch: the loop has no break, so the last match wins.
RECURSIVE LastMatch(_, _)
LastMatch(registrati, testo) ==
  IF registrati = <<>> THEN NoName
  ELSE LET rest == LastMatch(Tail(registrati), testo) IN
       IF rest # NoName THEN rest
       ELSE IF IsSubstring(Head(registrati), testo) THEN Head(registrati)
       ELSE NoName

\* The first department of the fetched list whose name occurs in the text,
\* NoName when none does (reparto_da_taggare).
RECURSIVE FirstMatch(_, _)
FirstMatch(registrati, testo) ==
  IF registrati = <<>> THEN NoName
  ELSE IF IsSubstring(Head(registrati), testo) THEN Head(registrati)
  ELSE FirstMatch(Tail(registrati), testo)

\* Mutant of IsAdminResult: a failed administrator query lets the user in.
IsAdminFailOpen(query, ids, from_user) ==
  CASE query = "ok" -> from_user \in ids
    [] OTHER -> TRUE

\* is_admin once the administrator query has answered: query is "private"
\* (no query made), "error" (the query raised) or "ok" with the list ids.
IsAdminResult(query, ids, from_user) ==
  CASE query = "private" -> TRUE
    [] query = "ok" -> from_user \in ids
    [] OTHER -> FALSE

\* Mutant of FinallyClose: the finally block does not close.
FinallyNoClose(conn) ==
  CASE conn = "unbound" -> [conn |-> "unbound", outcome |-> "raised"]
    [] OTHER -> [conn |-> conn, outcome |-> "returned"]

\* The finally block of a command handler: `if conn: conn.close()`.  With
\* conn never assigned the test itself raises UnboundLocalError.
FinallyClose(conn) ==
  CASE conn = "unbound" -> [conn |-> "unbound", outcome |-> "raised"]
    [] conn = "open" -> [conn |-> "closed", outcome |-> "returned"]
    [] OTHER -> [conn |-> conn, outcome |-> "returned"]

\* The finally block of gestore_messaggi: `conn.close()`.
FinallyCloseScanner(conn) ==
  CASE conn = "open" -> [conn |-> "closed", outcome |-> "returned"]
    [] OTHER -> [conn |-> conn, outcome |-> "raised"]

\* ------------------------------------------------------------ processes
IdleProc ==
  [handler |-> "none", pc |-> "idle", chat_id |-> 1, from_user |-> NoUser,
   args |-> <<>>, reply_to |-> NoUser, text |-> NoText,
   admin_query |-> "none", admin_ids |-> {}, authorized |-> FALSE,
   db |-> "none", conn |-> "unbound", reparto_nome |-> NoName, cur_rowcount |-> -1,
   reparti_registrati |-> <<>>, replies |-> <<>>, outcome |-> "none"]

Init ==
  /\ main_pc = "setup"
  /\ schema = "absent"
  /\ setup_conn = "unbound"
  /\ reparti = {}
  /\ membri = {}
  /\ proc = [p \in Procs |-> IdleProc]
  /\ updates = 0

\* setup_database, called by main before polling starts.
SetupDatabase ==
  /\ main_pc = "setup"
  /\ \E db \in DbOutcomes :
       /\ setup_conn' = IF db = "down" THEN "None" ELSE "closed"
       /\ schema' = IF db = "ok" THEN "present" ELSE schema
  /\ main_pc' = "polling"
  /\ UNCHANGED <<reparti, membri, proc, updates>>

Free(p) == proc[p].pc \in {"idle", "done"}

\* What a handler meets when it uses the database: with the tables missing
\* (setup_database failed) its first statement raises.
Met(db) == IF db = "ok" /\ schema # "present" THEN "fail" ELSE db

Works(db) == Met(db) = "ok"

\* The dispatcher hands a command update to its handler.  crea_reparto and
\* lista_reparto do not read the reply target, and lista_reparto does not
\* read the sender, so these are left at one value.  With conc FALSE
\* updates are processed one at a time; with conc TRUE the handler takes
\* the first free slot while others are still running.
DispatchCommand(p, conc) ==
  /\ main_pc = "polling"
  /\ Free(p)
  /\ \A q \in Procs : IF conc THEN q < p => ~Free(q) ELSE Free(q)
  /\ updates < MaxUpdates
  /\ \E h \in Commands,
        c \in IF conc THEN RaceChats ELSE Chats,
        a \in IF conc THEN RaceArgLists ELSE ArgLists :
     \E u \in Senders(c),
        r \in Senders(c) \cup {NoUser} :
       /\ h \in {"crea_reparto", "lista_reparto"} => r = NoUser
       /\ (conc /\ h \in {"aggiungi_membro", "rimuovi_membro"}) => r \in RaceReplyTo
       /\ h = "lista_reparto" => u = 1
       /\ proc' = [proc EXCEPT ![p] =
            [IdleProc EXCEPT !.handler = h,
                             !.pc = IF h \in AdminCommands THEN "is_admin" ELSE "body",
                             !.chat_id = c, !.from_user = u, !.args = a,
                             !.reply_to = r]]
  /\ updates' = updates + 1
  /\ UNCHANGED <<main_pc, schema, setup_conn, reparti, membri>>

\* The dispatcher hands a non-command text message to gestore_messaggi.
DispatchText(p, conc) ==
  /\ main_pc = "polling"
  /\ Free(p)
  /\ \A q \in Procs : IF conc THEN q < p => ~Free(q) ELSE Free(q)
  /\ updates < MaxUpdates
  /\ \E c \in IF conc THEN RaceChats ELSE Chats,
        t \in IF conc THEN RaceTexts ELSE Texts :
       proc' = [proc EXCEPT ![p] =
         [IdleProc EXCEPT !.handler = "gestore_messaggi", !.pc = "body",
                          !.chat_id = c, !.from_user = 1, !.text = t]]
  /\ updates' = updates + 1
  /\ UNCHANGED <<main_pc, schema, setup_conn, reparti, membri>>

\* is_admin, up to its return or to the diagnostic reply it awaits.  In a
\* private chat no query is made; in a group the query answers with the
\* administrator list or raises.
IsAdmin(p) ==
  LET r == proc[p] IN
  /\ r.pc = "is_admin"
  /\ \E q \in {"private", "error", "ok"} :
       /\ q = "private" <=> ChatType(r.chat_id) = "private"
       /\ LET ids == IF q = "ok" THEN ChatAdmins(r.chat_id) ELSE {}
              ok == IsAdminResult(q, ids, r.from_user)
          IN
          proc' = [proc EXCEPT ![p] =
            [r EXCEPT !.admin_query = q, !.admin_ids = ids, !.authorized = ok,
                      !.pc = IF ok THEN "body" ELSE "deny",
                      !.replies = IF q = "error"
                                    THEN Append(r.replies, Reply("verifica_permessi", NoName, <<>>))
                                    ELSE r.replies]]
  /\ UNCHANGED <<main_pc, schema, setup_conn, reparti, membri, updates>>

\* `if not await is_admin(...)`: the permission-denied reply and return.
Deny(p) ==
  LET r == proc[p] IN
  /\ r.pc = "deny"
  /\ proc' = [proc EXCEPT ![p] =
       [r EXCEPT !.pc = "done", !.outcome = "returned",
                 !.replies = Append(r.replies, Reply("solo_admin", NoName, <<>>))]]
  /\ UNCHANGED <<main_pc, schema, setup_conn, reparti, membri, updates>>

\* crea_reparto from its try block to the reply it awaits.
CreaReparto(p) ==
  LET r == proc[p] IN
  /\ r.pc = "body" /\ r.handler = "crea_reparto"
  /\ IF Len(r.args) = 0
       THEN \* context.args[0] raises IndexError; conn was never assigned
            /\ proc' = [proc EXCEPT ![p] =
                 [r EXCEPT !.pc = "finally",
                           !.replies = Append(r.replies, Reply("uso", NoName, <<>>))]]
            /\ UNCHANGED reparti
       ELSE LET nome == Lower(r.args[1]) IN
            IF ~StartsWith(nome, "@")
              THEN \* return from inside the try block; conn was never assigned
                   /\ proc' = [proc EXCEPT ![p] =
                        [r EXCEPT !.pc = "finally", !.reparto_nome = nome,
                                  !.replies = Append(r.replies, Reply("formato_errato", NoName, <<>>))]]
                   /\ UNCHANGED reparti
              ELSE \E db \in DbOutcomes :
                   LET res == InsertReparto(reparti, r.chat_id, nome)
                       good == Works(db) /\ ~res.error
                   IN
                   /\ reparti' = IF good THEN res.rows ELSE reparti
                   /\ proc' = [proc EXCEPT ![p] =
                        [r EXCEPT !.pc = "finally", !.reparto_nome = nome,
                                  !.db = Met(db), !.conn = IF db = "down" THEN "None" ELSE "open",
                                  !.replies = Append(r.replies,
                                     IF good THEN Reply("creato", nome, <<>>)
                                             ELSE Reply("errore_esiste", nome, <<>>))]]
  /\ UNCHANGED <<main_pc, schema, setup_conn, membri, updates>>

\* aggiungi_membro from the reply-target test to the reply it awaits.
AggiungiMembro(p) ==
  LET r == proc[p] IN
  /\ r.pc = "body" /\ r.handler = "aggiungi_membro"
  /\ IF r.reply_to = NoUser
       THEN \* before the try block: reply and return
            /\ proc' = [proc EXCEPT ![p] =
                 [r EXCEPT !.pc = "done", !.outcome = "returned",
                           !.replies = Append(r.replies, Reply("devi_rispondere", NoName, <<>>))]]
            /\ UNCHANGED membri
       ELSE IF Len(r.args) = 0
         THEN /\ proc' = [proc EXCEPT ![p] =
                   [r EXCEPT !.pc = "finally",
                             !.replies = Append(r.replies, Reply("uso", NoName, <<>>))]]
              /\ UNCHANGED membri
         ELSE \E db \in DbOutcomes :
              LET nome == Lower(r.args[1])
                  esiste == RepartoEsiste(reparti, r.chat_id, nome)
                  res == InsertMembro(reparti, membri, r.chat_id, nome,
                                      r.reply_to, FullName(r.reply_to))
                  good == Works(db) /\ esiste /\ ~res.error
                  msg == IF ~Works(db) \/ (esiste /\ res.error)
                           THEN Reply("errore", NoName, <<>>)
                         ELSE IF ~esiste
                           THEN Reply("non_esiste", nome, <<>>)
                         ELSE Reply("aggiunto", nome, <<FullName(r.reply_to)>>)
              IN
              /\ membri' = IF good THEN res.rows ELSE membri
              /\ proc' = [proc EXCEPT ![p] =
                   [r EXCEPT !.pc = "finally", !.reparto_nome = nome,
                             !.db = Met(db), !.conn = IF db = "down" THEN "None" ELSE "open",
                             !.replies = Append(r.replies, msg)]]
  /\ UNCHANGED <<main_pc, schema, setup_conn, reparti, updates>>

\* rimuovi_membro from the reply-target test to the reply it awaits.
RimuoviMembro(p) ==
  LET r == proc[p] IN
  /\ r.pc = "body" /\ r.handler = "rimuovi_membro"
  /\ IF r.reply_to = NoUser
       THEN /\ proc' = [proc EXCEPT ![p] =
                 [r EXCEPT !.pc = "done", !.outcome = "returned",
                           !.replies = Append(r.replies, Reply("devi_rispondere", NoName, <<>>))]]
            /\ UNCHANGED membri
       ELSE IF Len(r.args) = 0
         THEN /\ proc' = [proc EXCEPT ![p] =
                   [r EXCEPT !.pc = "finally",
                             !.replies = Append(r.replies, Reply("uso", NoName, <<>>))]]
              /\ UNCHANGED membri
         ELSE \E db \in DbOutcomes :
              LET nome == Lower(r.args[1])
                  res == DeleteMembro(membri, r.chat_id, nome, r.reply_to)
                  msg == IF ~Works(db)
                           THEN Reply("errore", NoName, <<>>)
                         ELSE IF FreshCursorRowcount = 0
                           THEN Reply("non_era", nome, <<FullName(r.reply_to)>>)
                         ELSE Reply("rimosso", nome, <<FullName(r.reply_to)>>)
              IN
              /\ membri' = IF Works(db) THEN res.rows ELSE membri
              /\ proc' = [proc EXCEPT ![p] =
                   [r EXCEPT !.pc = "finally", !.reparto_nome = nome,
                             !.db = Met(db), !.conn = IF db = "down" THEN "None" ELSE "open",
                             !.cur_rowcount = IF Works(db) THEN res.rowcount ELSE -1,
                             !.replies = Append(r.replies, msg)]]
  /\ UNCHANGED <<main_pc, schema, setup_conn, reparti, updates>>

\* lista_reparto from its try block to the reply it awaits.
ListaReparto(p) ==
  LET r == proc[p] IN
  /\ r.pc = "body" /\ r.handler = "lista_reparto"
  /\ IF Len(r.args) = 0
       THEN proc' = [proc EXCEPT ![p] =
              [r EXCEPT !.pc = "finally",
                        !.replies = Append(r.replies, Reply("uso", NoName, <<>>))]]
       ELSE \E db \in DbOutcomes :
            LET nome == Lower(r.args[1]) IN
            \E rows \in Orderings(MembriDi(membri, r.chat_id, nome)) :
            LET msg == IF ~Works(db)
                         THEN Reply("errore", NoName, <<>>)
                       ELSE IF rows = <<>>
                         THEN Reply("nessun_membro", nome, <<>>)
                       ELSE Reply("membri_del_reparto", nome,
                              [i \in 1..Len(rows) |-> <<rows[i].user_name, rows[i].user_id>>])
            IN
            proc' = [proc EXCEPT ![p] =
              [r EXCEPT !.pc = "finally", !.reparto_nome = nome,
                        !.db = Met(db), !.conn = IF db = "down" THEN "None" ELSE "open",
                        !.replies = Append(r.replies, msg)]]
  /\ UNCHANGED <<main_pc, schema, setup_conn, reparti, membri, updates>>

\* gestore_messaggi up to the reply it awaits, or to its finally block.
GestoreMessaggi(p) ==
  LET r == proc[p] IN
  /\ r.pc = "body" /\ r.handler = "gestore_messaggi"
  /\ IF r.text = NoText
       THEN proc' = [proc EXCEPT ![p] = [r EXCEPT !.pc = "done", !.outcome = "returned"]]
       ELSE \E db \in DbOutcomes :
            IF db = "down"
              THEN proc' = [proc EXCEPT ![p] =
                     [r EXCEPT !.pc = "done", !.outcome = "returned", !.db = Met(db),
                               !.conn = "None"]]
            ELSE IF ~Works(db)
              THEN \* the exception is logged and swallowed
                   proc' = [proc EXCEPT ![p] =
                     [r EXCEPT !.pc = "finally", !.db = Met(db), !.conn = "open"]]
            ELSE
              \E registrati \in Orderings(RepartiDi(reparti, r.chat_id)) :
              LET testo == Lower(r.text)
                  da_taggare == FirstMatch(registrati, testo)
              IN
              \E ids \in Orderings({m.user_id : m \in MembriDi(membri, r.chat_id, da_taggare)}) :
              LET tags == [i \in 1..Len(ids) |-> Mention(ids[i])] IN
              proc' = [proc EXCEPT ![p] =
                [r EXCEPT !.pc = "finally", !.db = Met(db), !.conn = "open",
                          !.reparti_registrati = registrati,
                          !.reparto_nome = da_taggare,
                          !.replies = IF da_taggare # NoName /\ ids # <<>>
                                        THEN Append(r.replies, Reply("chiamata", da_taggare, tags))
                                        ELSE r.replies]]
  /\ UNCHANGED <<main_pc, schema, setup_conn, reparti, membri, updates>>

\* The finally block of a handler, and its end.
Finally(p) ==
  LET r == proc[p]
      f == IF r.handler = "gestore_messaggi"
             THEN FinallyCloseScanner(r.conn)
             ELSE FinallyClose(r.conn)
  IN
  /\ r.pc = "finally"
  /\ proc' = [proc EXCEPT ![p] = [r EXCEPT !.pc = "done", !.conn = f.conn, !.outcome = f.outcome]]
  /\ UNCHANGED <<main_pc, schema, setup_conn, reparti, membri, updates>>

Step(p) ==
  \/ IsAdmin(p)
  \/ Deny(p)
  \/ CreaReparto(p)
  \/ AggiungiMembro(p)
  \/ RimuoviMembro(p)
  \/ ListaReparto(p)
  \/ GestoreMessaggi(p)
  \/ Finally(p)

\* Updates are processed one at a time (the default of the application
\* built by main).
Next ==
  \/ SetupDatabase
  \/ DispatchCommand(1, FALSE)
  \/ DispatchText(1, FALSE)
  \/ Step(1)

Spec == Init /\ [][Next]_vars

\* Updates are dispatched concurrently: handlers interleave where they await.
NextConc ==
  \/ SetupDatabase
  \/ \E p \in Procs : DispatchCommand(p, TRUE)
  \/ \E p \in Procs : DispatchText(p, TRUE)
  \/ \E p \in Procs : Step(p)

SpecConc == Init /\ [][NextConc]_vars

\* ======================================================== the properties
\* Helpers of the properties below.  Letter case is judged here without
\* Lower, from the table of letter pairs.
Ended(r) == r.pc \in {"finally", "done"}

LastReply(r) == r.replies[Len(r.replies)]

IsLowerCase(s) == \A i \in 1..Len(s) : s[i] \notin {"A", "B"}

SameLetter(x, y) == x = y \/ {x, y} \in {{"a", "A"}, {"b", "B"}}

EqIgnoreCase(a, b) ==
  Len(a) = Len(b) /\ \A i \in 1..Len(a) : SameLetter(a[i], b[i])

ContainsIgnoreCase(n, t) ==
  \E i \in 0..(Len(t) - Len(n)) : EqIgnoreCase(SubSeq(t, i + 1, i + Len(n)), n)

Range(f) == {f[i] : i \in DOMAIN f}

\* The remove-member invocations whose DELETE ran and deleted no row.
RemovedNobody(r) ==
  r.handler = "rimuovi_membro" /\ Ended(r) /\ r.db = "ok" /\ r.cur_rowcount = 0

\* C1: a remove-member command whose DELETE finds no row (chat, name, user)
\* is answered "non era in", not with the success reply "rimosso da".
C1_NonMemberGetsNonEra ==
  \A p \in Procs :
    RemovedNobody(proc[p]) => LastReply(proc[p]).kind = "non_era"

\* C2: no handler invocation ends with an exception leaving the handler.
C2_NoHandlerRaises ==
  \A p \in Procs : proc[p].outcome # "raised"

\* The positions of the fetched department list whose name occurs in the
\* lower-cased text, judged without FirstMatch.
MatchPositions(r) ==
  {i \in 1..Len(r.reparti_registrati) :
     ContainsIgnoreCase(r.reparti_registrati[i], r.text)}

FirstPosition(S) == CHOOSE i \in S : \A j \in S : i <= j

\* A scan whose queries ran: a text message met a working database.
Scanned(r) ==
  r.handler = "gestore_messaggi" /\ Ended(r) /\ r.text # NoText /\ r.db = "ok"

\* C3: the scanner sends at most one reply; when its queries ran it sends
\* one exactly when the first department of the fetched list whose name
\* occurs in the text has a member, and that reply names that department
\* and carries one mention per member of it; otherwise it sends none.
C3_FirstMatchOnly ==
  \A p \in Procs :
    LET r == proc[p] IN
    r.handler = "gestore_messaggi" =>
      /\ Len(r.replies) <= 1
      /\ ~Scanned(r) => r.replies = <<>>
      /\ Scanned(r) =>
           LET pos == MatchPositions(r)
               first == r.reparti_registrati[FirstPosition(pos)]
               members == {m \in membri : m.chat_id = r.chat_id /\ m.reparto_nome = first}
           IN
           /\ Range(r.reparti_registrati) = {x[2] : x \in {y \in reparti : y[1] = r.chat_id}}
           /\ Len(r.replies) = 1 <=> (pos # {} /\ members # {})
           /\ Len(r.replies) = 1 =>
                /\ r.replies[1].kind = "chiamata"
                /\ r.replies[1].reparto = first
                /\ Len(r.replies[1].users) = Cardinality(members)
                /\ Range(r.replies[1].users) = {Mention(m.user_id) : m \in members}

\* C3 witness: a message naming two registered departments got one reply.
C3_Witness_TwoMatchesOneReply ==
  \E p \in Procs :
    /\ Scanned(proc[p]) /\ proc[p].pc = "done"
    /\ Cardinality(MatchPositions(proc[p])) = 2
    /\ Len(proc[p].replies) = 1

\* The authorization rule, stated on what is_admin saw.
MayAdminister(r) ==
  \/ ChatType(r.chat_id) = "private"
  \/ r.admin_query = "ok" /\ r.from_user \in r.admin_ids

C4_DecisionInv ==
  \A p \in Procs :
    LET r == proc[p] IN
    (r.handler \in AdminCommands /\ r.pc \notin {"idle", "is_admin"}) =>
      /\ r.authorized <=> MayAdminister(r)
      /\ (~r.authorized /\ r.pc = "done") =>
           /\ LastReply(r).kind = "solo_admin"
           /\ r.admin_query = "error" =>
                r.replies = <<Reply("verifica_permessi", NoName, <<>>),
                              Reply("solo_admin", NoName, <<>>)>>
           /\ r.conn = "unbound"

C4_WriteStep ==
  (reparti' # reparti \/ membri' # membri) =>
    \E p \in Procs :
      /\ proc[p].handler \in AdminCommands
      /\ proc[p].pc = "body" /\ proc'[p].pc = "finally"
      /\ MayAdminister(proc[p])

\* C4: the tables change only in a step of an administrative command whose
\* invoker is authorized (private chat, or listed by a successful
\* administrator query); an unauthorized invoker, or a failed query (with
\* the diagnostic reply first), gets the permission-denied reply.
C4_OnlyAuthorizedWrites ==
  []C4_DecisionInv /\ [][C4_WriteStep]_vars

\* C4 witness: a non-admin's create-department in a group was denied and
\* the department it names was not created.
C4_Witness_Denied ==
  \E p \in Procs :
    LET r == proc[p] IN
    /\ r.handler = "crea_reparto" /\ r.pc = "done"
    /\ ChatType(r.chat_id) = "group" /\ r.admin_query = "ok"
    /\ r.from_user \notin r.admin_ids
    /\ r.args = << <<"@", "a">> >>
    /\ r.replies = <<Reply("solo_admin", NoName, <<>>)>>
    /\ <<r.chat_id, <<"@", "a">>>> \notin reparti

\* The create-department invocations that ran their INSERT on a working
\* database.
Created(r) ==
  r.handler = "crea_reparto" /\ Ended(r) /\ r.db = "ok"

\* C5: every create-department whose INSERT ran, first or repeated, one
\* after the other or interleaved, gets the success reply, and the chat
\* then holds exactly one department row of that name.
C5_CreateIsIdempotent ==
  \A p \in Procs :
    LET r == proc[p] IN
    Created(r) =>
      /\ LastReply(r) = Reply("creato", r.reparto_nome, <<>>)
      /\ Cardinality({x \in reparti : x[1] = r.chat_id /\ EqIgnoreCase(x[2], r.args[1])}) = 1

\* C5 witness: two create-department handlers for the same department are
\* in flight together, both past their INSERT with the success reply sent.
C5_Witness_RacingCreates ==
  /\ Created(proc[1]) /\ proc[1].pc = "finally"
  /\ Created(proc[2]) /\ proc[2].pc = "finally"
  /\ proc[1].chat_id = proc[2].chat_id
  /\ proc[1].reparto_nome = proc[2].reparto_nome
  /\ LastReply(proc[1]).kind = "creato" /\ LastReply(proc[2]).kind = "creato"

C6_AddStep ==
  \A p \in Procs :
    LET r == proc[p] IN
    ( /\ r.handler = "aggiungi_membro" /\ r.pc = "body"
      /\ proc'[p].pc = "finally" /\ proc'[p].db = "ok"
      /\ ~(\E x \in reparti : x[1] = r.chat_id /\ EqIgnoreCase(x[2], r.args[1])) )
    => /\ membri' = membri
       /\ LastReply(proc'[p]) = Reply("non_esiste", proc'[p].reparto_nome, <<>>)

\* C6: an add-member command that reaches the database and names a
\* department the chat does not have is answered "non esiste" and leaves
\* the membership table as it was.
C6_AddToMissingDepartment == [][C6_AddStep]_vars

\* C6 witness: an add-member was answered "non esiste".
C6_Witness_NonEsiste ==
  \E p \in Procs :
    LET r == proc[p] IN
    /\ r.handler = "aggiungi_membro" /\ r.pc = "done" /\ r.db = "ok"
    /\ LastReply(r).kind = "non_esiste"
    /\ ~(\E m \in membri : m.chat_id = r.chat_id /\ m.reparto_nome = r.reparto_nome)

\* C7: an invocation that has ended holds no open connection, whichever
\* way it ended, and neither does setup_database; with every invocation
\* ended no connection is open.
C7_ConnectionsClosed ==
  /\ main_pc = "polling" => setup_conn \in {"None", "closed"}
  /\ \A p \in Procs : proc[p].pc \in {"idle", "done"} => proc[p].conn # "open"
  /\ \A p \in Procs : proc[p].db \in {"fail", "ok"} => proc[p].conn \in {"open", "closed"}

\* C7 witness: a handler whose statement raised has ended with its
\* connection closed.
C7_Witness_ClosedAfterException ==
  \E p \in Procs :
    /\ proc[p].pc = "done" /\ proc[p].db = "fail" /\ proc[p].conn = "closed"
    /\ proc[p].handler = "aggiungi_membro"

\* C8: stored department names are lower-case; add-member, remove-member
\* and list-members given a name in any case act on the department of that
\* name; the scanner finds a department in text of any case.
C8_CaseInsensitiveNames ==
  /\ \A x \in reparti : IsLowerCase(x[2])
  /\ \A m \in membri : IsLowerCase(m.reparto_nome)
  /\ \A p \in Procs :
       LET r == proc[p] IN
       /\ (r.handler \in Commands /\ Ended(r) /\ r.db = "ok") =>
            /\ IsLowerCase(r.reparto_nome) /\ EqIgnoreCase(r.reparto_nome, r.args[1])
            /\ LastReply(r).reparto \in {NoName, r.reparto_nome}
       /\ (r.handler = "aggiungi_membro" /\ Ended(r) /\ r.db = "ok") =>
            /\ LastReply(r).kind = "aggiunto" <=>
                 \E x \in reparti : x[1] = r.chat_id /\ EqIgnoreCase(x[2], r.args[1])
            /\ LastReply(r).kind = "aggiunto" =>
                 \E m \in membri : /\ m.chat_id = r.chat_id /\ m.user_id = r.reply_to
                                   /\ EqIgnoreCase(m.reparto_nome, r.args[1])
       /\ (r.handler = "rimuovi_membro" /\ Ended(r) /\ r.db = "ok") =>
            ~(\E m \in membri : /\ m.chat_id = r.chat_id /\ m.user_id = r.reply_to
                                /\ EqIgnoreCase(m.reparto_nome, r.args[1]))
       /\ (r.handler = "lista_reparto" /\ Ended(r) /\ r.db = "ok") =>
            {u[2] : u \in Range(LastReply(r).users)} =
              {m.user_id : m \in {y \in membri : /\ y.chat_id = r.chat_id
                                                 /\ EqIgnoreCase(y.reparto_nome, r.args[1])}}
       /\ Scanned(r) =>
            (r.reparto_nome # NoName <=>
               \E x \in reparti : x[1] = r.chat_id /\ ContainsIgnoreCase(x[2], r.text))

\* C8 witness: a department created as "@A" and stored as "@a" was found
\* in the text "x@A" and its member was notified.
C8_Witness_UpperCaseTag ==
  \E p \in Procs :
    LET r == proc[p] IN
    /\ Scanned(r) /\ r.pc = "done"
    /\ r.text = <<"x", "@", "A">>
    /\ Len(r.replies) = 1 /\ r.replies[1].reparto = <<"@", "a">>

C9_ForeignKey ==
  \A m \in membri : <<m.chat_id, m.reparto_nome>> \in reparti

\* C9: every membership row has its (chat, department) row in reparti, and
\* the set of department rows only grows.
C9_MembersHaveDepartments ==
  []C9_ForeignKey /\ [][reparti \subseteq reparti']_vars

\* C9 witness: a membership row is stored while two handlers are in flight.
C9_Witness_MemberWhileRacing ==
  /\ membri # {}
  /\ \A p \in Procs : proc[p].pc \in {"body", "finally"}
  /\ \E p \in Procs : proc[p].handler = "rimuovi_membro"
  /\ \E p \in Procs : proc[p].handler = "aggiungi_membro"

OtherChats(tbl_rep, c) == {x \in tbl_rep : x[1] # c}

OtherChatsMembri(tbl, c) == {m \in tbl : m.chat_id # c}

C10_FrameStep ==
  \A p \in Procs :
    proc'[p] # proc[p] =>
      /\ OtherChats(reparti', proc'[p].chat_id) = OtherChats(reparti, proc'[p].chat_id)
      /\ OtherChatsMembri(membri', proc'[p].chat_id) = OtherChatsMembri(membri, proc'[p].chat_id)

C10_ScanInv ==
  \A p \in Procs :
    LET r == proc[p] IN
    Scanned(r) =>
      /\ r.reparto_nome # NoName => <<r.chat_id, r.reparto_nome>> \in reparti
      /\ r.replies # <<>> =>
           Range(r.replies[1].users) =
             {Mention(m.user_id) : m \in {y \in membri : /\ y.chat_id = r.chat_id
                                                         /\ y.reparto_nome = r.replies[1].reparto}}

\* C10: a step of a handler for chat A leaves the rows of every other chat
\* unchanged, and a tag message in chat A selects a department of chat A
\* and mentions exactly the members that department has in chat A.
C10_ChatsAreIsolated ==
  []C10_ScanInv /\ [][C10_FrameStep]_vars

\* C10 witness: a tag message matched a department of its chat that has no
\* member there while the department of that name in another chat has one:
\* nobody was mentioned.
C10_Witness_SameNameOtherChat ==
  \E p \in Procs :
    LET r == proc[p] IN
    /\ Scanned(r) /\ r.pc = "done" /\ r.reparto_nome # NoName
    /\ r.replies = <<>>
    /\ \E m \in membri : m.chat_id # r.chat_id /\ m.reparto_nome = r.reparto_nome
====
